---- MODULE Spec2Model ----
(***************************************************************************)
(* Model of the stencil render-and-watch engine of cx:                     *)
(*   runRenderStencil, renderStencil, getRenderFilepath, loadFormation     *)
(* (formation stencils command).  A file name is a sequence of one-char    *)
(* strings, a path is a sequence of names, a file body a sequence of       *)
(* bytes, a rendered file a sequence of lines.                             *)
(***************************************************************************)
EXTENDS Integers, Sequences, FiniteSets, TLC

VARIABLES
    files,          \* stencil folder: a function from the names present to their bodies
    sentinel,       \* TRUE iff the file .pause exists in the stencil folder
    outs,           \* output folder: a function from the names present to their lines
    catalog,        \* stencil filenames of the formation, on the server
    formation,      \* the formation the client holds: [ok, stencils], ok FALSE for nil
    stencilFolder,  \* TRUE for a --stencil-folder run, FALSE for --stencil-file
    watch,          \* --watch
    ignoreWarnings, \* --ignore-warnings
    ignoreErrors,   \* --ignore-errors
    filesToRender,  \* the enumerated paths
    output,         \* the variable output of runRenderStencil
    mainPc,         \* position of runRenderStencil
    idx,            \* index of the loop the main routine is in
    loopPc,         \* position of the watch goroutine
    paused,         \* the variable paused of runRenderStencil
    queue,          \* watcher.Events: events delivered and not yet taken
    watchedFiles,   \* names registered with the watcher
    dirWatched,     \* TRUE iff the stencil folder is registered with the watcher
    pending,        \* the file-created event the goroutine sleeps on (<< >>: none)
    slept,          \* seconds the goroutine has been in time.Sleep
    steps,          \* the number of steps the environment has taken
    probe,          \* one getRenderFilepath call on its own: [outdir, arg, result]
    snapshotParam,  \* --snapshot
    snapshots,      \* the snapshots of the stack on the server, as client.Snapshots lists them
    snapshotUID,    \* the variable snapshotUID of runRenderStencil
    queried,        \* history: TRUE iff the run has called client.Snapshots
    last,           \* history: the last step that rendered or dropped an event
    written,        \* history: output name -> the body submitted and content returned
                    \* by the render call behind the engine's last write of that file
    skPc,           \* position of runSkycapListenDeploy and of the doRender it calls
    skRunning,      \* the variable skycapListenDeployRunning
    skQueue,        \* the messages waiting in the queue on the server
    skPayload,      \* the payload of the message doRender was called with last
    skTrace,        \* history: the service calls doRender has made for skPayload
    skSkipped,      \* history: TRUE iff a tick found skycapListenDeployRunning set
    skSent          \* the number of messages the server has put in the queue

vars == << files, sentinel, outs, catalog, formation, stencilFolder, watch,
           ignoreWarnings, ignoreErrors, filesToRender, output, mainPc, idx,
           loopPc, paused, queue, watchedFiles, dirWatched, pending, slept,
           steps, probe, last, written,
           snapshotParam, snapshots, snapshotUID, queried,
           skPc, skRunning, skQueue, skPayload, skTrace, skSkipped, skSent >>

\* the state of the skycap listener
skyVars == << skPc, skRunning, skQueue, skPayload, skTrace, skSkipped, skSent >>

\* the state of the render command
renderVars == << files, sentinel, outs, catalog, formation, stencilFolder, watch,
                 ignoreWarnings, ignoreErrors, filesToRender, output, mainPc, idx,
                 loopPc, paused, queue, watchedFiles, dirWatched, pending, slept,
                 steps, probe, last, written,
                 snapshotParam, snapshots, snapshotUID, queried >>

\* cx skycap listen has not been started
NoPayload == [ decodes |-> FALSE, complete |-> FALSE, task |-> "", workflow |-> FALSE,
               none |-> TRUE ]
SkyOff ==
    /\ skPc = "off"
    /\ skRunning = FALSE
    /\ skQueue = << >>
    /\ skPayload = NoPayload
    /\ skTrace = << >>
    /\ skSkipped = FALSE
    /\ skSent = 0

\* the state of the snapshot resolution
startVars == << snapshotParam, snapshots, snapshotUID, queried >>

(*************************** bounds *****************************************)
MaxOutputs == 2
MaxEnvSteps == 2
MaxNameLen == 3
MaxMessages == 2

(*************************** program constants ******************************)
DebounceSeconds == 10
MinIntervalSeconds == 5

NoOutput == << >>
NoMatch == -1

PauseName == << ".", "p", "a", "u", "s", "e" >>
NameAtB == << "a", "@", "b" >>
\* directory entries in the order ioutil.ReadDir returns them (sorted by name)
NameOrder == << NameAtB >>
\* further names a stencil folder may hold at the start: a private stencil and
\* the name a@b is rendered to
NamePrivate == << "_", "p" >>
NameDashB == << "a", "-", "b" >>
AllOrder == << NamePrivate, NameDashB, NameAtB >>
AllNames == { AllOrder[i] : i \in 1..Len(AllOrder) }
Names == { NameOrder[i] : i \in 1..Len(NameOrder) }

InDir == << << "i", "n" >> >>
OutDir == << << "o", "u", "t" >> >>
ExplicitName == << "r" >>

Bytes == {1, 2}
RECURSIVE SeqsUpTo(_, _)
SeqsUpTo(S, n) ==
    IF n = 0 THEN { << >> }
    ELSE LET shorter == SeqsUpTo(S, n - 1)
         IN  shorter \cup { Append(t, x) : t \in { u \in shorter : Len(u) = n - 1 }, x \in S }
Bodies == { << >> } \cup { << b >> : b \in Bytes }

\* a directory with file x written (created or replaced) and with x removed
WithFile(d, x, v) == [ n \in DOMAIN d \cup {x} |-> IF n = x THEN v ELSE d[n] ]
WithoutFile(d, x) == [ n \in DOMAIN d \ {x} |-> d[n] ]
NoFiles == [ n \in {} |-> << >> ]

(*************************** library functions ******************************)
\* strings.ReplaceAll with one-character old and new
ReplaceAll(s, old, new) == [ i \in 1..Len(s) |-> IF s[i] = old THEN new ELSE s[i] ]
\* strings.HasPrefix with a one-character prefix
HasPrefix(s, c) == Len(s) >= 1 /\ s[1] = c
\* filepath.Base, filepath.Dir, filepath.Join on component sequences
Base(p) == p[Len(p)]
Dir(p) == SubSeq(p, 1, Len(p) - 1)
Join(d, name) == Append(d, name)

(*************************** checksum helpers *******************************)
\* generateChecksum: a digest of the bytes of the body
RECURSIVE generateChecksum(_)
generateChecksum(body) ==
    IF body = << >> THEN 7
    ELSE (generateChecksum(SubSeq(body, 1, Len(body) - 1)) * 31 + body[Len(body)]) % 65536

MarkerLine(checksum) == << "# cx.checksum: ", checksum >>
IsMarkerLine(line) == line[1] = "# cx.checksum: "

\* readMagicComment(path, "checksum") in directory os: [err, value]
readMagicComment(os, path) ==
    IF Base(path) \notin DOMAIN os THEN [ err |-> TRUE, value |-> NoMatch ]
    ELSE LET file == os[Base(path)]
         IN  IF Len(file) >= 1 /\ IsMarkerLine(file[1])
             THEN [ err |-> FALSE, value |-> file[1][2] ]
             ELSE [ err |-> FALSE, value |-> NoMatch ]

\* fileExists(path) in directory fs
fileExists(fs, path) == Base(path) \in DOMAIN fs

(*************************** the Rendering Service **************************)
\* the k-th rendered content the service returns for a body
RenderedContent(body, k) == << << "text", k, body >> >>
\* the faults one renderStencil call may meet, and what the service answers
Faults == { "none", "read", "call", "write" }
RenderInputs ==
    [ fault : Faults,           \* ioutil.ReadFile, client.RenderStencil or ioutil.WriteFile fails
      errors : 0..1,            \* len(renders.Errors())
      warnings : 0..1,          \* len(renders.Warnings())
      n : 0..MaxOutputs ]       \* len(renders.Stencils)
Quiet == [ fault |-> "none", errors |-> 0, warnings |-> 0, n |-> 0 ]

\* getRenderFilepath without the replacement of '@'
getRenderFilepathNoReplace(outdir, stencilFilename) ==
    Join(outdir, Base(stencilFilename))

(*************************** getRenderFilepath ******************************)
getRenderFilepath(outdir, stencilFilename) ==
    LET stencilBasename == Base(stencilFilename)
        renderFilename == ReplaceAll(stencilBasename, "@", "-")
    IN  Join(outdir, renderFilename)

(*************************** renderStencil **********************************)
\* fmt.Sprintf("# cx.checksum: %s\n%s", checksum, content)
StampedContent(checksum, content) == << MarkerLine(checksum) >> \o content

\* the gate with the comparison inverted
ChecksumSkipsInverted(body, out, os) ==
    /\ out # NoOutput
    /\ LET checksum == generateChecksum(body)
           read == readMagicComment(os, out)
       IN  ~read.err /\ checksum # read.value

\* the gate skipping whenever the output file carries a checksum
ChecksumSkipsAnyMarker(body, out, os) ==
    /\ out # NoOutput
    /\ LET read == readMagicComment(os, out)
       IN  ~read.err /\ read.value # NoMatch

\* the checksum gate: TRUE iff renderStencil returns at "No change found"
ChecksumSkips(body, out, os) ==
    /\ out # NoOutput
    /\ LET checksum == generateChecksum(body)
           read == readMagicComment(os, out)
       IN  ~read.err /\ checksum = read.value

\* the gate carrying on without a word when the output file cannot be read
GateNoticeSilent(out, os) == FALSE

\* TRUE iff the gate prints "Failed to read the checksum: ..." on os.Stderr
GateNotice(out, os) == out # NoOutput /\ readMagicComment(os, out).err

\* the triage with a flag inverted, and with ignoreErrors not read
ErrorsSuppressInverted(in, igE) == in.errors # 0 /\ igE
ErrorsSuppressAlways(in, igE) == in.errors # 0
WarningsSuppressInverted(in, igW) == in.warnings # 0 /\ igW

\* the diagnostics triage: TRUE iff renderStencil returns before the content loop
ErrorsSuppress(in, igE) == in.errors # 0 /\ ~igE
WarningsSuppress(in, igW) == in.warnings # 0 /\ ~igW

\* the diagnostics renderStencil prints to os.Stderr: every error of the answer,
\* and every warning of it unless the errors triage has returned before
ErrorsReported(in, igE) == in.errors
WarningsReported(in, igE) == IF ErrorsSuppress(in, igE) THEN 0 ELSE in.warnings

\* the content loop: the number of ioutil.WriteFile calls that succeed
WritesDone(out, in) ==
    IF out = NoOutput \/ in.fault = "write" THEN 0 ELSE in.n

\* the content loop stamping the checksum the gate read from the old output file
StampOfStale(body, read) ==
    IF read.err \/ read.value = NoMatch THEN generateChecksum(body) ELSE read.value

\* the checksum the content loop stamps, given the body read and the checksum gate's read
StampOf(body, read) == generateChecksum(body)

\* a write that adds to the file instead of replacing it
WriteFileAppend(os, path, content) ==
    IF Base(path) \in DOMAIN os
    THEN WithFile(os, Base(path), os[Base(path)] \o content)
    ELSE WithFile(os, Base(path), content)

\* ioutil.WriteFile(output, []byte(content), 0644): the file is created or truncated
WriteFile(os, path, content) == WithFile(os, Base(path), content)

\* "for _, v := range renders.Stencils" from the k-th content on, n contents in
\* all: each is stamped and written over the output file
RECURSIVE ContentLoop(_, _, _, _, _, _)
ContentLoop(body, out, os, read, k, n) ==
    IF k > n THEN os
    ELSE ContentLoop(body, out,
                     WriteFile(os, out, StampedContent(StampOf(body, read),
                                                       RenderedContent(body, k))),
                     read, k + 1, n)

\* the output directory the content loop leaves
WrittenFiles(body, out, os, in) ==
    ContentLoop(body, out, os, readMagicComment(os, out), 1, WritesDone(out, in))

\* the stencil lookup without the comparison of the filename
StencilFoundAny(stencilName, fm) == fm.stencils # {}

\* the lookup "for _, stencil := range formation.Stencils": TRUE iff stencilUID is set
StencilFound(stencilName, fm) == stencilName \in fm.stencils

\* the whole of renderStencil: how it ends, whether client.RenderStencil was
\* called (0 or 1 times), the body read and submitted, the writes made and the
\* output directory it leaves
renderStencil(stencilFilename, fm, out, igW, igE, fs, os, in) ==
    LET stencilName == Base(stencilFilename)
        body == IF fileExists(fs, stencilFilename) THEN fs[stencilName] ELSE << >>
        quiet == [ exit |-> "return", calls |-> 0, body |-> body,
                   writes |-> 0, outs |-> os, stage |-> "none",
                   repErrors |-> 0, repWarnings |-> 0, notice |-> FALSE ]
        passed == [ quiet EXCEPT !.calls = 1, !.notice = GateNotice(out, os) ]
    IN  IF ~fileExists(fs, stencilFilename)
        THEN [ quiet EXCEPT !.exit = "fatal", !.stage = "missing" ]
        ELSE IF HasPrefix(stencilName, "_") THEN [ quiet EXCEPT !.stage = "private" ]
        ELSE IF ~fm.ok THEN [ quiet EXCEPT !.exit = "panic", !.stage = "nilformation" ]
        ELSE IF ~StencilFound(stencilName, fm) THEN [ quiet EXCEPT !.stage = "unresolved" ]
        ELSE IF in.fault = "read" THEN [ quiet EXCEPT !.exit = "fatal", !.stage = "unreadable" ]
        ELSE IF Len(body) = 0 THEN [ quiet EXCEPT !.stage = "empty" ]
        ELSE IF ChecksumSkips(body, out, os) THEN [ quiet EXCEPT !.stage = "nochange" ]
        ELSE IF in.fault = "call"
        THEN [ passed EXCEPT !.exit = "fatal", !.stage = "callerr" ]
        ELSE IF ErrorsSuppress(in, igE)
        THEN [ passed EXCEPT !.stage = "errors",
                            !.repErrors = ErrorsReported(in, igE),
                            !.repWarnings = WarningsReported(in, igE) ]
        ELSE IF WarningsSuppress(in, igW)
        THEN [ passed EXCEPT !.stage = "warnings",
                            !.repErrors = ErrorsReported(in, igE),
                            !.repWarnings = WarningsReported(in, igE) ]
        ELSE [ exit |-> IF out # NoOutput /\ in.fault = "write" /\ in.n > 0
                        THEN "fatal" ELSE "return",
               calls |-> 1, body |-> body,
               writes |-> WritesDone(out, in),
               outs |-> WrittenFiles(body, out, os, in),
               stage |-> "content",
               repErrors |-> ErrorsReported(in, igE),
               repWarnings |-> WarningsReported(in, igE),
               notice |-> GateNotice(out, os) ]

\* the inputs a renderStencil call consumes: none before ioutil.ReadFile, the read
\* fault alone before client.RenderStencil, the answer of the service after it
InputsOf(stencilFilename, fm, out, fs, os) ==
    LET reached == renderStencil(stencilFilename, fm, out, FALSE, FALSE, fs, os, Quiet).stage
    IN  IF reached \in { "missing", "private", "nilformation", "unresolved" } THEN { Quiet }
        ELSE IF reached \in { "empty", "nochange" }
        THEN { Quiet, [ Quiet EXCEPT !.fault = "read" ] }
        ELSE { in \in RenderInputs :
                 /\ in.fault \in { "read", "call" } => in = [ Quiet EXCEPT !.fault = in.fault ]
                 /\ in.fault = "write" => in.n > 0 }

(*************************** loadFormation **********************************)
LoadInputs == [ err : BOOLEAN,      \* client.Formations returns an error
                found : BOOLEAN ]   \* a formation of that name is in the list
loadFormation(cat, ld) ==
    IF ld.err THEN [ ok |-> FALSE, stencils |-> {} ]
    ELSE IF ld.found THEN [ ok |-> TRUE, stencils |-> cat ]
    ELSE [ ok |-> FALSE, stencils |-> {} ]

(*************************** snapshot resolution ****************************)
\* two snapshots of the stack, Older taken before Newer
Older == [ uid |-> "s1", date |-> 1 ]
Newer == [ uid |-> "s2", date |-> 2 ]
LiteralUID == "s9"
SnapshotParams == { "", "latest", LiteralUID }
SnapshotLists == { << >>, << Older, Newer >>, << Newer, Older >> }

\* sort.Sort(snapshotsByDate(snapshots)): the most recent first
RECURSIVE snapshotsByDate(_)
snapshotsByDate(list) ==
    IF list = << >> THEN << >>
    ELSE LET i == CHOOSE k \in 1..Len(list) :
                    \A j \in 1..Len(list) : list[j].date <= list[k].date
             rest == [ j \in 1..(Len(list) - 1) |-> IF j < i THEN list[j] ELSE list[j + 1] ]
         IN  << list[i] >> \o snapshotsByDate(rest)

\* the test with the empty parameter forgotten
NeedsLatestWordOnly(param) == param = "latest"

\* snapshotIDParam == "" || snapshotIDParam == "latest"
NeedsLatest(param) == param = "" \/ param = "latest"

\* a snapshot taken while the process runs, more recent than the others
Newest == [ uid |-> "s3", date |-> 3 ]

\* a watch render that resolves "latest" again at the time of the call
SnapshotUsedLatest(kind, uid, param, list) ==
    IF kind # "batch" /\ NeedsLatest(param) /\ list # << >>
    THEN snapshotsByDate(list)[1].uid
    ELSE uid

\* the snapshot a renderStencil call is given: snapshotUID as set-up left it
SnapshotUsed(kind, uid, param, list) == uid

(*************************** runRenderStencil: set-up ***********************)
\* ioutil.ReadDir(stencilFolder): the entries sorted by name
EntryOrder == << PauseName >> \o AllOrder
ReadDir(fs, sen) ==
    SelectSeq(EntryOrder, LAMBDA n : IF n = PauseName THEN sen ELSE n \in DOMAIN fs)

\* the enumeration loop without the skip of ".pause"
EnumerateFolderAll(fs, sen) ==
    [ i \in 1..Len(ReadDir(fs, sen)) |-> Join(InDir, ReadDir(fs, sen)[i]) ]

\* the enumeration loop of a folder run
EnumerateFolder(fs, sen) ==
    LET kept == SelectSeq(ReadDir(fs, sen), LAMBDA n : n # PauseName)
    IN  [ i \in 1..Len(kept) |-> Join(InDir, kept[i]) ]

\* --stencil-file and --output of a single-file run
StencilFile == Join(InDir, NameAtB)
OutputFile == Join(OutDir, ExplicitName)

\* outdir: output for a folder run, filepath.Dir(output) for a single-file run
Outdir == IF stencilFolder THEN OutDir ELSE Dir(OutputFile)

Running == mainPc \notin { "exited", "done" }
\* the positions of runRenderStencil between the enumeration and the batch loop,
\* where it reads neither folder: a change of the folders there is a change
\* right before the batch loop
SetUpPcs == { "snapshot", "load", "check" }

Only(os, out) ==
    IF out = NoOutput THEN NoFiles
    ELSE [ n \in DOMAIN os \cap { Base(out) } |-> os[n] ]

NoLast ==
    [ kind |-> "none", name |-> << >>, sp |-> FALSE, paused |-> FALSE,
      present |-> FALSE, resolved |-> FALSE, fault |-> "none",
      calls |-> 0, writes |-> 0, body |-> << >>, out |-> NoOutput,
      pre |-> NoFiles, post |-> NoFiles, prev |-> NoFiles, errors |-> 0, warnings |-> 0,
      n |-> 0, waited |-> 0, exit |-> "return", stage |-> "none",
      loaded |-> FALSE, snapshot |-> "", repErrors |-> 0, repWarnings |-> 0,
      notice |-> FALSE ]

\* the history record of one renderStencil call: what it was given (the event, the
\* source file, the formation fm, the output file before, the inputs it consumed)
\* and what it did
Rendered(kind, ev, fm, out, in, r, waited) ==
    [ kind |-> kind, name |-> Base(ev.name), sp |-> ev.sp, paused |-> paused,
      present |-> fileExists(files, ev.name),
      resolved |-> fm.ok /\ Base(ev.name) \in fm.stencils,
      fault |-> in.fault,
      calls |-> r.calls, writes |-> r.writes, body |-> r.body, out |-> out,
      pre |-> Only(outs, out), post |-> Only(r.outs, out), prev |-> Only(written, out),
      errors |-> IF r.calls > 0 THEN in.errors ELSE 0,
      warnings |-> IF r.calls > 0 THEN in.warnings ELSE 0,
      n |-> IF r.calls > 0 THEN in.n ELSE 0,
      waited |-> waited, exit |-> r.exit, stage |-> r.stage,
      loaded |-> fm.ok,
      snapshot |-> SnapshotUsed(kind, snapshotUID, snapshotParam, snapshots),
      repErrors |-> r.repErrors, repWarnings |-> r.repWarnings, notice |-> r.notice ]

WrittenAfter(out, in, r) ==
    IF r.writes = 0 THEN written
    ELSE WithFile(written, Base(out),
                  [ body |-> r.body, content |-> RenderedContent(r.body, r.writes) ])

NoProbe == [ outdir |-> << >>, arg |-> << >>, result |-> << >> ]

InitOuts ==
    { NoFiles,
      WithFile(NoFiles, ReplaceAll(NameAtB, "@", "-"), RenderedContent(<< 1 >>, 1)),
      WithFile(NoFiles, ReplaceAll(NameAtB, "@", "-"),
               StampedContent(generateChecksum(<< 1 >>), RenderedContent(<< 2 >>, 1))) }

Init ==
    /\ files \in { NoFiles } \cup { WithFile(NoFiles, NameAtB, b) : b \in Bodies }
    /\ sentinel \in BOOLEAN
    /\ outs \in InitOuts
    /\ catalog \in SUBSET Names
    /\ formation = [ ok |-> TRUE, stencils |-> catalog ]
    /\ stencilFolder = TRUE
    /\ watch \in BOOLEAN
    /\ ignoreWarnings \in BOOLEAN
    /\ ignoreErrors \in BOOLEAN
    /\ filesToRender = IF stencilFolder THEN EnumerateFolder(files, sentinel)
                       ELSE << StencilFile >>
    /\ output = IF stencilFolder THEN OutDir ELSE OutputFile
    /\ mainPc = IF Len(filesToRender) = 0 THEN "exited" ELSE "batch"
    /\ idx = 1
    /\ loopPc = "off"
    /\ paused = FALSE
    /\ queue = << >>
    /\ watchedFiles = {}
    /\ dirWatched = FALSE
    /\ pending = << >>
    /\ slept = 0
    /\ steps = 0
    /\ probe = NoProbe
    /\ last = NoLast
    /\ written = NoFiles
    /\ snapshotParam = "latest"
    /\ snapshots = << Newer, Older >>
    /\ snapshotUID = Newer.uid
    /\ queried = TRUE
    /\ SkyOff


(*************************** runRenderStencil: the initial pass *************)
\* one iteration of "for _, stencil := range filesToRender"
BatchStep ==
    /\ mainPc = "batch"
    /\ LET stencil == filesToRender[idx]
           file == Base(stencil)
           out == IF stencilFolder THEN getRenderFilepath(Outdir, << file >>) ELSE output
       IN \E in \in InputsOf(stencil, formation, out, files, outs) :
         LET r == renderStencil(stencil, formation, out, ignoreWarnings, ignoreErrors,
                                files, outs, in)
         IN  /\ output' = out
             /\ outs' = r.outs
             /\ last' = Rendered("batch", [ name |-> stencil, sp |-> sentinel ], formation, out, in, r, 0)
             /\ written' = WrittenAfter(out, in, r)
             /\ mainPc' = IF r.exit # "return" THEN "exited"
                          ELSE IF idx < Len(filesToRender) THEN "batch"
                          ELSE IF watch THEN "pausecheck" ELSE "done"
             /\ idx' = IF r.exit = "return" /\ idx < Len(filesToRender) THEN idx + 1 ELSE 1
    /\ UNCHANGED << slept, steps, files, sentinel, catalog, formation, stencilFolder, watch,
                    ignoreWarnings, ignoreErrors, filesToRender, loopPc, paused,
                    queue, watchedFiles, dirWatched, pending >>
    /\ UNCHANGED probe
    /\ UNCHANGED startVars
    /\ UNCHANGED skyVars

(*************************** runRenderStencil: watch set-up *****************)
\* paused := fileExists(filepath.Join(stencilFolder, ".pause")); go func() {...}()
\* with --stencil-file the folder is "" and the file looked up is ".pause" of the
\* working directory, which may or may not be there
PauseCheck ==
    /\ mainPc = "pausecheck"
    /\ paused' \in (IF stencilFolder THEN { sentinel } ELSE BOOLEAN)
    /\ loopPc' = "idle"
    /\ mainPc' = "add"
    /\ idx' = 1
    /\ UNCHANGED << slept, steps, files, sentinel, outs, catalog, formation, stencilFolder, watch,
                    ignoreWarnings, ignoreErrors, filesToRender, output, queue,
                    watchedFiles, dirWatched, pending, written >>
    /\ last' = NoLast
    /\ UNCHANGED probe
    /\ UNCHANGED startVars
    /\ UNCHANGED skyVars

\* one iteration of "for _, file := range filesToRender { watcher.Add(file) }"
AddFile ==
    /\ mainPc = "add"
    /\ idx <= Len(filesToRender)
    /\ LET file == filesToRender[idx]
       IN  IF fileExists(files, file)
           THEN /\ watchedFiles' = watchedFiles \cup { Base(file) }
                /\ idx' = idx + 1
                /\ mainPc' = "add"
           ELSE /\ mainPc' = "exited"
                /\ UNCHANGED << watchedFiles, idx >>
    /\ UNCHANGED << slept, steps, files, sentinel, outs, catalog, formation, stencilFolder, watch,
                    ignoreWarnings, ignoreErrors, filesToRender, output, loopPc,
                    paused, queue, dirWatched, pending, written >>
    /\ last' = NoLast
    /\ UNCHANGED probe
    /\ UNCHANGED startVars
    /\ UNCHANGED skyVars

\* "if stencilFolder != "" { watcher.Add(stencilFolder) }" and "<-done"
AddFolder ==
    /\ mainPc = "add"
    /\ idx > Len(filesToRender)
    /\ dirWatched' = stencilFolder
    /\ mainPc' = "blocked"
    /\ UNCHANGED << slept, steps, files, sentinel, outs, catalog, formation, stencilFolder, watch,
                    ignoreWarnings, ignoreErrors, filesToRender, output, idx, loopPc,
                    paused, queue, watchedFiles, pending, written >>
    /\ last' = NoLast
    /\ UNCHANGED probe
    /\ UNCHANGED startVars
    /\ UNCHANGED skyVars

(*************************** the watch goroutine ****************************)
\* the Remove branch without the test of the filename
AfterRemoveAnyFile(ev, p) ==
    IF "Remove" \in ev.op THEN FALSE ELSE p

\* paused after the Remove branch of the handler
AfterRemove(ev, p) ==
    IF "Remove" \in ev.op /\ Base(ev.name) = PauseName THEN FALSE ELSE p

\* the handler without "if paused { continue }"
DroppedNever(ev, p) == FALSE

\* TRUE iff the handler drops the event at "if paused { continue }"
Dropped(ev, p) == AfterRemove(ev, p)

\* a handler that takes the next event while an earlier one still waits
HandlerFreeAlways(pc) == pc # "off"

\* TRUE iff the goroutine is at its select: the one handler is not in time.Sleep
HandlerFree(pc) == pc = "idle"

\* one iteration of the select loop on watcher.Events, up to time.Sleep
HandleEvent ==
    /\ Running
    /\ HandlerFree(loopPc)
    /\ queue # << >>
    /\ LET ev == Head(queue)
           p1 == AfterRemove(ev, paused)
           out == getRenderFilepath(Outdir, << Base(ev.name) >>)
           isWrite == "Write" \in ev.op
           isCreate == "Create" \in ev.op
       IN  /\ queue' = Tail(queue)
           /\ IF Dropped(ev, paused)
              THEN /\ paused' = p1
                   /\ last' = [ NoLast EXCEPT !.kind = "drop", !.name = Base(ev.name),
                                              !.sp = ev.sp, !.paused = TRUE ]
                   /\ UNCHANGED << outs, output, written, mainPc, loopPc, pending >>
              ELSE \E in \in IF isWrite THEN InputsOf(ev.name, formation, out, files, outs)
                                 ELSE { Quiet } :
                     LET r == IF isWrite
                              THEN renderStencil(ev.name, formation, out, ignoreWarnings,
                                                 ignoreErrors, files, outs, in)
                              ELSE [ exit |-> "return", calls |-> 0, body |-> << >>,
                                     writes |-> 0, outs |-> outs, stage |-> "none",
                                     repErrors |-> 0, repWarnings |-> 0,
                                     notice |-> FALSE ]
                         ended == r.exit # "return"
                     IN  /\ outs' = r.outs
                         /\ written' = IF isWrite THEN WrittenAfter(out, in, r) ELSE written
                         /\ last' = IF isWrite
                                    THEN [ Rendered("write", ev, formation, out, in, r, 0)
                                           EXCEPT !.paused = p1 ]
                                    ELSE [ NoLast EXCEPT !.kind = "other", !.paused = p1,
                                                         !.name = Base(ev.name), !.sp = ev.sp ]
                         /\ mainPc' = IF ended THEN "exited" ELSE mainPc
                         /\ IF ended \/ ~isCreate
                            THEN /\ paused' = p1
                                 /\ output' = IF isWrite THEN out ELSE output
                                 /\ UNCHANGED << loopPc, pending >>
                            ELSE IF Base(ev.name) = PauseName
                            THEN /\ paused' = TRUE
                                 /\ output' = IF isWrite THEN out ELSE output
                                 /\ UNCHANGED << loopPc, pending >>
                            ELSE /\ paused' = p1
                                 /\ output' = out
                                 /\ loopPc' = "sleeping"
                                 /\ pending' = << ev >>
    /\ slept' = 0
    /\ UNCHANGED << steps, files, sentinel, catalog, formation, stencilFolder, watch,
                    ignoreWarnings, ignoreErrors, filesToRender, idx, watchedFiles,
                    dirWatched >>
    /\ UNCHANGED probe
    /\ UNCHANGED startVars
    /\ UNCHANGED skyVars

\* the handler without time.Sleep
DebounceWaitNone(ev) == 0

\* the seconds time.Sleep blocks the handler of file-created event ev
DebounceWait(ev) == DebounceSeconds

\* a second passes while the handler is in time.Sleep
Tick ==
    /\ Running
    /\ loopPc = "sleeping"
    /\ slept < DebounceWait(pending[1])
    /\ slept' = slept + 1
    /\ last' = NoLast
    /\ UNCHANGED << files, sentinel, outs, catalog, formation, stencilFolder, watch,
                    ignoreWarnings, ignoreErrors, filesToRender, output, mainPc, idx,
                    loopPc, paused, queue, watchedFiles, dirWatched, pending, steps,
                    written >>
    /\ UNCHANGED probe
    /\ UNCHANGED startVars
    /\ UNCHANGED skyVars

\* the handler rendering with the formation it held before the reload
ReloadedFormationStale(old, reloaded) == old

\* the formation the file-created handler holds after
\* "formation, _ = loadFormation(stack, formation.Name)"
ReloadedFormation(old, reloaded) == reloaded

\* the rest of the file-created handler: time.Sleep returns, loadFormation,
\* renderStencil, watcher.Add
Wake ==
    /\ Running
    /\ loopPc = "sleeping"
    /\ slept >= DebounceWait(pending[1])
    /\ LET ev == pending[1]
       IN  IF ~formation.ok
           THEN \* formation.Name on a nil formation
                /\ mainPc' = "exited"
                /\ last' = [ NoLast EXCEPT !.kind = "create", !.name = Base(ev.name),
                                           !.sp = ev.sp, !.waited = slept,
                                           !.exit = "panic", !.stage = "nilformation" ]
                /\ UNCHANGED << formation, outs, written, watchedFiles >>
           ELSE \E ld \in LoadInputs :
                \E in \in InputsOf(ev.name,
                                    ReloadedFormation(formation, loadFormation(catalog, ld)),
                                    output, files, outs) :
                  LET fm == ReloadedFormation(formation, loadFormation(catalog, ld))
                      r == renderStencil(ev.name, fm, output, ignoreWarnings, ignoreErrors,
                                         files, outs, in)
                  IN  /\ formation' = fm
                      /\ outs' = r.outs
                      /\ written' = WrittenAfter(output, in, r)
                      /\ last' = Rendered("create", ev, fm, output, in, r, slept)
                      /\ mainPc' = IF r.exit # "return" THEN "exited" ELSE mainPc
                      /\ watchedFiles' = IF r.exit = "return" /\ fileExists(files, ev.name)
                                         THEN watchedFiles \cup { Base(ev.name) }
                                         ELSE watchedFiles
    /\ loopPc' = "idle"
    /\ pending' = << >>
    /\ slept' = 0
    /\ UNCHANGED << steps, files, sentinel, catalog, stencilFolder, watch, ignoreWarnings,
                    ignoreErrors, filesToRender, output, idx, paused, queue, dirWatched >>
    /\ UNCHANGED probe
    /\ UNCHANGED startVars
    /\ UNCHANGED skyVars

(*************************** the environment ********************************)
\* the watcher delivers an event on a registered file or in a registered folder
Event(n, op) == [ name |-> Join(InDir, n), op |-> { op }, sp |-> sentinel ]
Deliver(n, op, seen) ==
    /\ mainPc \notin SetUpPcs
    /\ steps < MaxEnvSteps
    /\ steps' = steps + 1
    /\ queue' = IF seen THEN Append(queue, Event(n, op)) ELSE queue

ModifyFile ==
    /\ Running
    /\ \E n \in DOMAIN files, b \in Bodies :
         /\ files' = WithFile(files, n, b)
         /\ Deliver(n, "Write", n \in watchedFiles \/ dirWatched)
    /\ UNCHANGED << slept, sentinel, outs, catalog, formation, stencilFolder, watch,
                    ignoreWarnings, ignoreErrors, filesToRender, output, mainPc, idx,
                    loopPc, paused, watchedFiles, dirWatched, pending, written >>
    /\ last' = NoLast
    /\ UNCHANGED probe
    /\ UNCHANGED startVars
    /\ UNCHANGED skyVars

CreateFile ==
    /\ Running
    /\ \E n \in Names \ DOMAIN files, b \in Bodies :
         /\ files' = WithFile(files, n, b)
         /\ Deliver(n, "Create", dirWatched)
    /\ UNCHANGED << slept, sentinel, outs, catalog, formation, stencilFolder, watch,
                    ignoreWarnings, ignoreErrors, filesToRender, output, mainPc, idx,
                    loopPc, paused, watchedFiles, dirWatched, pending, written >>
    /\ last' = NoLast
    /\ UNCHANGED probe
    /\ UNCHANGED startVars
    /\ UNCHANGED skyVars

DeleteFile ==
    /\ Running
    /\ \E n \in DOMAIN files :
         /\ files' = WithoutFile(files, n)
         /\ Deliver(n, "Remove", n \in watchedFiles \/ dirWatched)
         /\ watchedFiles' = watchedFiles \ { n }
    /\ UNCHANGED << slept, sentinel, outs, catalog, formation, stencilFolder, watch,
                    ignoreWarnings, ignoreErrors, filesToRender, output, mainPc, idx,
                    loopPc, paused, dirWatched, pending, written >>
    /\ last' = NoLast
    /\ UNCHANGED probe
    /\ UNCHANGED startVars
    /\ UNCHANGED skyVars

CreateSentinel ==
    /\ Running
    /\ ~sentinel
    /\ sentinel' = TRUE
    /\ Deliver(PauseName, "Create", dirWatched)
    /\ UNCHANGED << slept, files, outs, catalog, formation, stencilFolder, watch,
                    ignoreWarnings, ignoreErrors, filesToRender, output, mainPc, idx,
                    loopPc, paused, watchedFiles, dirWatched, pending, written >>
    /\ last' = NoLast
    /\ UNCHANGED probe
    /\ UNCHANGED startVars
    /\ UNCHANGED skyVars

RemoveSentinel ==
    /\ Running
    /\ sentinel
    /\ sentinel' = FALSE
    /\ Deliver(PauseName, "Remove", dirWatched)
    /\ UNCHANGED << slept, files, outs, catalog, formation, stencilFolder, watch,
                    ignoreWarnings, ignoreErrors, filesToRender, output, mainPc, idx,
                    loopPc, paused, watchedFiles, dirWatched, pending, written >>
    /\ last' = NoLast
    /\ UNCHANGED probe
    /\ UNCHANGED startVars
    /\ UNCHANGED skyVars

\* a stencil of that filename is registered in the formation on the server
RegisterStencil ==
    /\ Running
    /\ mainPc \notin SetUpPcs
    /\ steps < MaxEnvSteps
    /\ steps' = steps + 1
    /\ \E n \in Names \ catalog : catalog' = catalog \cup { n }
    /\ UNCHANGED << slept, files, sentinel, outs, formation, stencilFolder, watch,
                    ignoreWarnings, ignoreErrors, filesToRender, output, mainPc, idx,
                    loopPc, paused, queue, watchedFiles, dirWatched, pending, written >>
    /\ last' = NoLast
    /\ UNCHANGED probe
    /\ UNCHANGED startVars
    /\ UNCHANGED skyVars

Next ==
    \/ BatchStep
    \/ PauseCheck
    \/ AddFile
    \/ AddFolder
    \/ HandleEvent
    \/ Tick
    \/ Wake
    \/ ModifyFile
    \/ CreateFile
    \/ DeleteFile
    \/ CreateSentinel
    \/ RemoveSentinel
    \/ RegisterStencil

Spec == Init /\ [][Next]_vars

(*************************** runRenderStencil from its start ****************)
\* the history record of a set-up step
Started(stage, exit) == [ NoLast EXCEPT !.kind = "start", !.stage = stage, !.exit = exit ]

\* "find the snapshot": client.Snapshots, must, sort.Sort, printFatal
ResolveSnapshot ==
    /\ mainPc = "snapshot"
    /\ IF NeedsLatest(snapshotParam)
       THEN \E err \in BOOLEAN :
              LET sorted == snapshotsByDate(snapshots)
              IN  /\ queried' = TRUE
                  /\ IF err
                     THEN /\ mainPc' = "exited"
                          /\ last' = Started("snaperr", "fatal")
                          /\ UNCHANGED snapshotUID
                     ELSE IF Len(sorted) = 0
                     THEN /\ mainPc' = "exited"
                          /\ last' = Started("nosnapshots", "fatal")
                          /\ UNCHANGED snapshotUID
                     ELSE /\ snapshotUID' = sorted[1].uid
                          /\ mainPc' = "load"
                          /\ last' = Started("snapshot", "return")
       ELSE /\ snapshotUID' = snapshotParam
            /\ mainPc' = "load"
            /\ last' = Started("snapshot", "return")
            /\ UNCHANGED queried
    /\ UNCHANGED << files, sentinel, outs, catalog, formation, stencilFolder, watch,
                    ignoreWarnings, ignoreErrors, filesToRender, output, idx, loopPc,
                    paused, queue, watchedFiles, dirWatched, pending, slept, steps,
                    probe, written, snapshotParam, snapshots >>
    /\ UNCHANGED skyVars

\* "formation, err := loadFormation(stack, formationName); must(err)"
InitialLoad ==
    /\ mainPc = "load"
    /\ \E ld \in LoadInputs :
         LET fm == loadFormation(catalog, ld)
         IN  IF fm.ok
             THEN /\ formation' = fm
                  /\ mainPc' = "check"
                  /\ last' = Started("load", "return")
             ELSE /\ mainPc' = "exited"
                  /\ last' = Started("loaderr", "fatal")
                  /\ UNCHANGED formation
    /\ UNCHANGED << files, sentinel, outs, catalog, stencilFolder, watch,
                    ignoreWarnings, ignoreErrors, filesToRender, output, idx, loopPc,
                    paused, queue, watchedFiles, dirWatched, pending, slept, steps,
                    probe, written >>
    /\ UNCHANGED startVars
    /\ UNCHANGED skyVars

\* the test that never finds the list empty
NoFilesFoundNever(ftr) == FALSE

\* len(filesToRender) == 0
NoFilesFound(ftr) == Len(ftr) = 0

\* "if len(filesToRender) == 0 { printFatal(...) }" and the entry of the batch loop
EmptyCheck ==
    /\ mainPc = "check"
    /\ IF NoFilesFound(filesToRender)
       THEN /\ mainPc' = "exited"
            /\ last' = Started("nofiles", "fatal")
       ELSE /\ mainPc' = IF Len(filesToRender) > 0 THEN "batch"
                         ELSE IF watch THEN "pausecheck" ELSE "done"
            /\ last' = Started("files", "return")
    /\ UNCHANGED << files, sentinel, outs, catalog, formation, stencilFolder, watch,
                    ignoreWarnings, ignoreErrors, filesToRender, output, idx, loopPc,
                    paused, queue, watchedFiles, dirWatched, pending, slept, steps,
                    probe, written >>
    /\ UNCHANGED startVars
    /\ UNCHANGED skyVars

\* the folders a run may start on: any of the names, each with the same body
StartFolders ==
    { [ n \in S |-> << 1 >> ] : S \in SUBSET AllNames }

\* the state after the enumeration of the folder: a run without --watch on any
\* snapshot parameter and list with at most the one stencil, or on any folder
\* with the latest snapshot; a run with --watch on a folder of at most one file
StartInit ==
    /\ files \in StartFolders
    /\ snapshotParam \in SnapshotParams
    /\ snapshots \in SnapshotLists
    /\ watch \in BOOLEAN
    /\ catalog \in { {}, Names, AllNames }
    /\ \/ DOMAIN files \subseteq Names /\ ~watch
       \/ /\ Cardinality(DOMAIN files) <= 1
          /\ NameDashB \notin DOMAIN files
          /\ catalog # Names
          /\ snapshotParam \in { "latest", LiteralUID }
          /\ snapshots = << Older, Newer >>
       \/ snapshotParam = "latest" /\ snapshots = << Older, Newer >> /\ ~watch
    /\ snapshotUID = ""
    /\ queried = FALSE
    /\ sentinel \in IF Cardinality(DOMAIN files) <= 1 THEN BOOLEAN ELSE { FALSE }
    /\ outs = NoFiles
    /\ formation = [ ok |-> FALSE, stencils |-> {} ]
    /\ stencilFolder = TRUE
    /\ ignoreWarnings = FALSE
    /\ ignoreErrors = FALSE
    /\ filesToRender = EnumerateFolder(files, sentinel)
    /\ output = OutDir
    /\ mainPc = "snapshot"
    /\ idx = 1
    /\ loopPc = "off"
    /\ paused = FALSE
    /\ queue = << >>
    /\ watchedFiles = {}
    /\ dirWatched = FALSE
    /\ pending = << >>
    /\ slept = 0
    /\ steps = 0
    /\ probe = NoProbe
    /\ last = NoLast
    /\ written = NoFiles
    /\ SkyOff

\* the stack gets a new snapshot while the process watches; followed only for
\* the runs that asked for the latest snapshot, the others never read the list
NewSnapshot ==
    /\ Running
    /\ watch
    /\ NeedsLatest(snapshotParam)
    /\ mainPc \notin SetUpPcs
    /\ Newest \notin { snapshots[i] : i \in DOMAIN snapshots }
    /\ steps < MaxEnvSteps
    /\ steps' = steps + 1
    /\ snapshots' = Append(snapshots, Newest)
    /\ last' = NoLast
    /\ UNCHANGED << files, sentinel, outs, catalog, formation, stencilFolder, watch,
                    ignoreWarnings, ignoreErrors, filesToRender, output, mainPc, idx,
                    loopPc, paused, queue, watchedFiles, dirWatched, pending, slept,
                    probe, written, snapshotParam, snapshotUID, queried >>
    /\ UNCHANGED skyVars

StartNext ==
    \/ ResolveSnapshot
    \/ InitialLoad
    \/ EmptyCheck
    \/ NewSnapshot
    \/ Next

SpecStart == StartInit /\ [][StartNext]_vars

(*************************** a single-file run ******************************)
\* cx formations stencils render --stencil-file in/a@b --output out/r [--watch]:
\* the state right before the batch loop
FileInit ==
    /\ files \in { WithFile(NoFiles, NameAtB, b) : b \in Bodies }
    /\ sentinel \in BOOLEAN
    /\ outs \in { NoFiles,
                  WithFile(NoFiles, ExplicitName,
                           StampedContent(generateChecksum(<< 1 >>),
                                          RenderedContent(<< 1 >>, 1))) }
    /\ catalog \in SUBSET Names
    /\ formation = [ ok |-> TRUE, stencils |-> catalog ]
    /\ stencilFolder = FALSE
    /\ watch \in BOOLEAN
    /\ ignoreWarnings \in BOOLEAN
    /\ ignoreErrors \in BOOLEAN
    /\ filesToRender = << StencilFile >>
    /\ output = OutputFile
    /\ mainPc = "batch"
    /\ idx = 1
    /\ loopPc = "off"
    /\ paused = FALSE
    /\ queue = << >>
    /\ watchedFiles = {}
    /\ dirWatched = FALSE
    /\ pending = << >>
    /\ slept = 0
    /\ steps = 0
    /\ probe = NoProbe
    /\ last = NoLast
    /\ written = NoFiles
    /\ snapshotParam = "latest"
    /\ snapshots = << Newer, Older >>
    /\ snapshotUID = Newer.uid
    /\ queried = TRUE
    /\ SkyOff

\* the folder is not registered with the watcher, so no file-created event is
\* ever delivered and the handler never sleeps
FileNext ==
    \/ BatchStep
    \/ PauseCheck
    \/ AddFile
    \/ AddFolder
    \/ HandleEvent
    \/ ModifyFile
    \/ CreateFile
    \/ DeleteFile
    \/ CreateSentinel
    \/ RemoveSentinel
    \/ RegisterStencil

SpecFile == FileInit /\ [][FileNext]_vars

(*************************** getRenderFilepath on its own *******************)
NameChars == { "a", "@", "-" }
ProbeNames == SeqsUpTo(NameChars, MaxNameLen) \ { << >> }

\* no run: the process has ended, nothing is watched
PathInit ==
    /\ probe \in { [ outdir |-> d, arg |-> a, result |-> << >> ] :
                     d \in { InDir, OutDir },
                     a \in { << n >> : n \in ProbeNames } \cup { Join(InDir, n) : n \in ProbeNames } }
    /\ files = NoFiles
    /\ sentinel = FALSE
    /\ outs = NoFiles
    /\ catalog = {}
    /\ formation = [ ok |-> TRUE, stencils |-> {} ]
    /\ stencilFolder = TRUE
    /\ watch = FALSE
    /\ ignoreWarnings = FALSE
    /\ ignoreErrors = FALSE
    /\ filesToRender = << >>
    /\ output = OutDir
    /\ mainPc = "exited"
    /\ idx = 1
    /\ loopPc = "off"
    /\ paused = FALSE
    /\ queue = << >>
    /\ watchedFiles = {}
    /\ dirWatched = FALSE
    /\ pending = << >>
    /\ slept = 0
    /\ steps = 0
    /\ last = NoLast
    /\ written = NoFiles
    /\ snapshotParam = "latest"
    /\ snapshots = << Newer, Older >>
    /\ snapshotUID = Newer.uid
    /\ queried = TRUE
    /\ SkyOff

PathStep ==
    /\ probe.result = << >>
    /\ probe' = [ probe EXCEPT !.result = getRenderFilepath(probe.outdir, probe.arg) ]
    /\ UNCHANGED << files, sentinel, outs, catalog, formation, stencilFolder, watch,
                    ignoreWarnings, ignoreErrors, filesToRender, output, mainPc, idx,
                    loopPc, paused, queue, watchedFiles, dirWatched, pending, slept,
                    steps, last, written >>
    /\ UNCHANGED startVars
    /\ UNCHANGED skyVars

PathNext == PathStep

SpecPath == PathInit /\ [][PathNext]_vars

(*************************** cx skycap listen *******************************)
\* the messages the server may put in the queue: a message that does not decode,
\* a payload without formation, snapshot or stack, and complete payloads with or
\* without a task UUID and a workflow
Messages ==
    { m \in [ decodes : BOOLEAN, complete : BOOLEAN, task : { "", "t1" },
              workflow : BOOLEAN, none : { FALSE } ] :
        /\ ~m.decodes => (~m.complete /\ m.task = "" /\ ~m.workflow)
        /\ ~m.complete => ~m.workflow }

\* --interval in seconds: not given, too short, long enough
Intervals == { 0, 1, MinIntervalSeconds }

TASK_ACK == "ack"
TASK_FAIL == "fail"
TASK_SUCCESS == "success"

\* updateTask: client.UpdateQueue is called unless the task UUID is empty
updateTask(trace, taskUUID, state) ==
    IF taskUUID = "" THEN trace ELSE Append(trace, state)

\* the second test of the run's outcome looking at the step errors only
ReportsSuccessStepOnly(runErrors, stepErrors) == ~stepErrors

\* "if runErrors != nil || stepErrors != nil" and the else branch of
\* "if stepErrors != nil || runErrors != nil"
ReportsFailure(runErrors, stepErrors) == runErrors \/ stepErrors
ReportsSuccess(runErrors, stepErrors) == ~(stepErrors \/ runErrors)

\* the flag reset at the end of doRender only, not on its early returns
FlagOnReturnLate(early) == early

\* skycapListenDeployRunning after doRender has returned: the deferred function
\* has run, on an early return as at the end
FlagOnReturn(early) == FALSE

\* runSkycapListenDeploy up to its for loop
runSkycapListenDeploy ==
    /\ skPc = "off"
    /\ skRunning' = FALSE
    /\ \E interval \in Intervals :
         skPc' = IF interval # 0 /\ interval < MinIntervalSeconds THEN "exited" ELSE "select"
    /\ UNCHANGED << skQueue, skPayload, skTrace, skSkipped, skSent >>
    /\ UNCHANGED renderVars

\* case <-ticker.C: the flag test and operation() up to the call of doRender,
\* whose first statement sets the flag
TickerTick ==
    /\ skPc = "select"
    /\ IF skRunning
       THEN /\ skSkipped' = TRUE
            /\ UNCHANGED << skPc, skRunning, skQueue, skPayload, skTrace >>
       ELSE \E err \in BOOLEAN :
              IF err \/ skQueue = << >>
              THEN UNCHANGED << skPc, skRunning, skQueue, skPayload, skTrace, skSkipped >>
              ELSE /\ skPayload' = Head(skQueue)
                   /\ skQueue' = Tail(skQueue)
                   /\ skTrace' = << >>
                   /\ skRunning' = TRUE
                   /\ skPc' = "decode"
                   /\ UNCHANGED skSkipped
    /\ UNCHANGED skSent
    /\ UNCHANGED renderVars

\* doRender returns to the for loop
Returned(trace, early) ==
    /\ skTrace' = trace
    /\ skRunning' = FlagOnReturn(early)
    /\ skPc' = "select"

\* doRender from json.Unmarshal to the ack of the task
DoRenderDecode ==
    /\ skPc = "decode"
    /\ IF ~skPayload.decodes \/ ~skPayload.complete
       THEN Returned(skTrace, TRUE)
       ELSE /\ skTrace' = updateTask(skTrace, skPayload.task, TASK_ACK)
            /\ skPc' = "fetch"
            /\ UNCHANGED skRunning
    /\ UNCHANGED << skQueue, skPayload, skSkipped, skSent >>
    /\ UNCHANGED renderVars

\* client.GetWorkflow and its error branch
DoRenderFetch ==
    /\ skPc = "fetch"
    /\ \E err \in BOOLEAN :
         LET called == Append(skTrace, "fetch")
         IN  IF err
             THEN Returned(updateTask(called, skPayload.task, TASK_FAIL), TRUE)
             ELSE /\ skTrace' = called
                  /\ skPc' = "load"
                  /\ UNCHANGED skRunning
    /\ UNCHANGED << skQueue, skPayload, skSkipped, skSent >>
    /\ UNCHANGED renderVars

\* trackmanType.LoadWorkflowFromReader and its error branch
DoRenderLoad ==
    /\ skPc = "load"
    /\ \E err \in BOOLEAN :
         LET called == Append(skTrace, "load")
         IN  IF err
             THEN Returned(updateTask(called, skPayload.task, TASK_FAIL), TRUE)
             ELSE /\ skTrace' = called
                  /\ skPc' = "run"
                  /\ UNCHANGED skRunning
    /\ UNCHANGED << skQueue, skPayload, skSkipped, skSent >>
    /\ UNCHANGED renderVars

\* workflow.Run and the report of its outcome
DoRenderRun ==
    /\ skPc = "run"
    /\ \E runErrors \in BOOLEAN, stepErrors \in BOOLEAN :
         LET called == Append(skTrace, "run")
             failed == IF ReportsFailure(runErrors, stepErrors)
                       THEN updateTask(called, skPayload.task, TASK_FAIL)
                       ELSE called
             done == IF ReportsSuccess(runErrors, stepErrors)
                     THEN updateTask(failed, skPayload.task, TASK_SUCCESS)
                     ELSE failed
         IN  Returned(done, FALSE)
    /\ UNCHANGED << skQueue, skPayload, skSkipped, skSent >>
    /\ UNCHANGED renderVars

\* case <-close: os.Exit(0)
Interrupt ==
    /\ skPc = "select"
    /\ skPc' = "exited"
    /\ UNCHANGED << skRunning, skQueue, skPayload, skTrace, skSkipped, skSent >>
    /\ UNCHANGED renderVars

\* the server puts a message in the queue
Enqueue ==
    /\ skPc \notin { "off", "exited" }
    /\ skSent < MaxMessages
    /\ skSent' = skSent + 1
    /\ \E m \in Messages : skQueue' = Append(skQueue, m)
    /\ UNCHANGED << skPc, skRunning, skPayload, skTrace, skSkipped >>
    /\ UNCHANGED renderVars

\* the render command is not run
SkyInit ==
    /\ files = NoFiles
    /\ sentinel = FALSE
    /\ outs = NoFiles
    /\ catalog = {}
    /\ formation = [ ok |-> FALSE, stencils |-> {} ]
    /\ stencilFolder = TRUE
    /\ watch = FALSE
    /\ ignoreWarnings = FALSE
    /\ ignoreErrors = FALSE
    /\ filesToRender = << >>
    /\ output = NoOutput
    /\ mainPc = "exited"
    /\ idx = 1
    /\ loopPc = "off"
    /\ paused = FALSE
    /\ queue = << >>
    /\ watchedFiles = {}
    /\ dirWatched = FALSE
    /\ pending = << >>
    /\ slept = 0
    /\ steps = 0
    /\ probe = NoProbe
    /\ last = NoLast
    /\ written = NoFiles
    /\ snapshotParam = ""
    /\ snapshots = << >>
    /\ snapshotUID = ""
    /\ queried = FALSE
    /\ SkyOff
SkyNext ==
    \/ runSkycapListenDeploy
    \/ TickerTick
    \/ DoRenderDecode
    \/ DoRenderFetch
    \/ DoRenderLoad
    \/ DoRenderRun
    \/ Interrupt
    \/ Enqueue

SpecSkycap == SkyInit /\ [][SkyNext]_vars

\* doRender is straight-line code in the one routine of the listener: each of its
\* steps is taken once the call before it has returned
SpecSkycapFair ==
    /\ SpecSkycap
    /\ WF_vars(DoRenderDecode) /\ WF_vars(DoRenderFetch)
    /\ WF_vars(DoRenderLoad) /\ WF_vars(DoRenderRun)

(*************************** properties *************************************)
RenderKinds == { "batch", "write", "create" }
Contains(s, c) == \E i \in 1..Len(s) : s[i] = c

\* the last step was a renderStencil call that got as far as the checksum gate
\* with a non-empty body and an output path
ReachedGate ==
    /\ last.kind \in RenderKinds
    /\ last.present
    /\ last.resolved
    /\ ~HasPrefix(last.name, "_")
    /\ last.fault # "read"
    /\ last.body # << >>
    /\ last.out # NoOutput

\* the output file carried the checksum of the body when the call began
PreCarries(checksum) ==
    LET read == readMagicComment(last.pre, last.out)
    IN  ~read.err /\ read.value = checksum

\* the output file starts with the marker line of the checksum after the call
PostCarries(checksum) ==
    /\ last.out # NoOutput
    /\ Base(last.out) \in DOMAIN last.post
    /\ Len(last.post[Base(last.out)]) >= 1
    /\ last.post[Base(last.out)][1] = MarkerLine(checksum)

\* C1: a render of a resolvable, non-private, non-empty source whose output file
\* already carries the checksum of the source makes no call to the Rendering
\* Service and no write, whatever ignoreErrors and ignoreWarnings are, and leaves
\* the output file as it was.
C1_Idempotence ==
    (ReachedGate /\ PreCarries(generateChecksum(last.body)))
        => (last.calls = 0 /\ last.writes = 0 /\ last.post = last.pre)

C1_Witness ==
    /\ ReachedGate
    /\ PreCarries(generateChecksum(last.body))
    /\ last.kind = "write"
    /\ Base(last.out) \in DOMAIN last.prev
    /\ ignoreErrors /\ ~ignoreWarnings

\* the service answered one output and no diagnostics, and no write failed
CleanAnswer == last.n = 1 /\ last.errors = 0 /\ last.warnings = 0 /\ last.fault = "none"

\* C2: with no output file, source A is rendered by exactly one call and stamped
\* fp(A); a run on the unchanged source of the engine's last write makes no call;
\* a run on a source B other than the source A of the engine's last write makes
\* exactly one call and the stamp becomes fp(B), which differs from fp(A).
C2_FingerprintSensitivity ==
    LET d == Base(last.out)
        fp == generateChecksum(last.body)
    IN  /\ (ReachedGate /\ last.pre = NoFiles /\ last.fault # "call")
            => /\ last.calls = 1
               /\ CleanAnswer => (last.writes = 1 /\ PostCarries(fp))
        /\ (ReachedGate /\ d \in DOMAIN last.prev /\ last.prev[d].body = last.body)
            => last.calls = 0
        /\ (ReachedGate /\ d \in DOMAIN last.prev /\ last.prev[d].body # last.body)
            => /\ last.calls = 1
               /\ CleanAnswer
                    => /\ last.writes = 1
                       /\ PostCarries(fp)
                       /\ PreCarries(generateChecksum(last.prev[d].body))
                       /\ fp # generateChecksum(last.prev[d].body)

C2_Witness ==
    /\ ReachedGate
    /\ Base(last.out) \in DOMAIN last.prev
    /\ last.prev[Base(last.out)].body # last.body
    /\ CleanAnswer
    /\ last.calls = 1
    /\ PostCarries(generateChecksum(last.body))

\* C3: a render answer with an error diagnostic, ignoreErrors being false, writes
\* nothing: the output file stays as it was, whatever the warnings and
\* ignoreWarnings are.
C3_ErrorSuppression ==
    (last.kind \in RenderKinds /\ last.calls = 1 /\ last.fault = "none"
        /\ last.errors > 0 /\ ~ignoreErrors)
        => (last.writes = 0 /\ last.post = last.pre)

C3_Witness ==
    /\ last.kind \in RenderKinds /\ last.calls = 1 /\ last.fault = "none"
    /\ last.errors > 0 /\ ~ignoreErrors
    /\ last.warnings > 0 /\ ignoreWarnings
    /\ last.n > 0

\* C4: a render answer with a warning diagnostic, ignoreWarnings being false,
\* writes nothing, also when the answer holds errors that are ignored.
C4_WarningSuppression ==
    (last.kind \in RenderKinds /\ last.calls = 1 /\ last.fault = "none"
        /\ last.warnings > 0 /\ ~ignoreWarnings)
        => (last.writes = 0 /\ last.post = last.pre)

C4_Witness ==
    /\ last.kind \in RenderKinds /\ last.calls = 1 /\ last.fault = "none"
    /\ last.warnings > 0 /\ ~ignoreWarnings
    /\ last.errors > 0 /\ ignoreErrors
    /\ last.n > 0

\* the answer's only diagnostics are ignored errors, or are ignored warnings; an
\* output path is set and no call or write failed
OnlyIgnoredDiagnostics ==
    /\ last.kind \in RenderKinds
    /\ last.calls = 1
    /\ last.fault = "none"
    /\ last.out # NoOutput
    /\ \/ last.errors > 0 /\ last.warnings = 0 /\ ignoreErrors
       \/ last.warnings > 0 /\ last.errors = 0 /\ ignoreWarnings

\* C5 as claimed: every answer whose only diagnostics are ignored is written to an
\* output file stamped with the checksum of the source.
C5_Original ==
    OnlyIgnoredDiagnostics
        => (last.writes >= 1 /\ PostCarries(generateChecksum(last.body)))

\* C5: an answer whose only diagnostics are ignored and that holds n >= 1
\* outputs is written (n writes, none failing) to the output file, stamped with
\* the checksum of the source; with no output in the answer nothing is written.
C5_IgnoredDiagnostics ==
    OnlyIgnoredDiagnostics
        => IF last.n >= 1
           THEN last.writes = last.n /\ PostCarries(generateChecksum(last.body))
           ELSE last.writes = 0 /\ last.post = last.pre

C5_Witness ==
    /\ OnlyIgnoredDiagnostics
    /\ last.errors > 0
    /\ last.n >= 1
    /\ PostCarries(generateChecksum(last.body))
    /\ last.post # last.pre

\* C6 as claimed: a file-modified event of a tracked file that was raised while
\* .pause was in the watched folder makes no call to the Rendering Service and no
\* write.
C6_PauseSemantics ==
    (last.kind = "write" /\ last.sp) => (last.calls = 0 /\ last.writes = 0)

\* C7: in the watch loop no call to the Rendering Service and no write is made
\* while paused is true, and once the goroutine runs paused changes only in a
\* step of its event handler.
C7_NoRenderWhilePaused ==
    (last.kind \in { "write", "create", "other", "drop" } /\ last.paused)
        => (last.calls = 0 /\ last.writes = 0 /\ last.kind = "drop")

C7_SingleWriter ==
    (loopPc # "off" /\ paused' # paused)
        => (loopPc = "idle" /\ queue # << >> /\ queue' = Tail(queue))

C7_WatchState == []C7_NoRenderWhilePaused /\ [][C7_SingleWriter]_vars

C7_Witness ==
    /\ last.kind = "drop"
    /\ last.name \in Names
    /\ paused
    /\ dirWatched

\* C8 as claimed: a file-created event of a non-sentinel file, taken while
\* active, leads to no call before the debounce interval has passed and to
\* exactly one call after it.
C8_Original ==
    last.kind = "create" => (last.waited >= DebounceSeconds /\ last.calls = 1)

\* C8: a file-created event of a non-sentinel file, taken while active, leads to
\* no call while the handler waits and to none before 10 seconds have passed;
\* then to at most one call, and to exactly one iff the file is still there and
\* readable, is not private, resolves in the reloaded formation, is not empty and
\* the output file does not carry its checksum.
C8_Debounce ==
    /\ loopPc = "sleeping" => (last.calls = 0 /\ last.writes = 0)
    /\ last.kind = "create"
        => /\ last.waited >= DebounceSeconds
           /\ last.calls \in { 0, 1 }
           /\ last.calls = 1
                <=> (ReachedGate /\ ~PreCarries(generateChecksum(last.body)))

C8_Witness ==
    /\ last.kind = "create"
    /\ last.calls = 1
    /\ last.writes >= 1
    /\ last.waited = DebounceSeconds

\* C9: for a source filename that contains '@', the filename getRenderFilepath
\* computes differs from the source filename, and so does the path.
C9_CollisionAvoidance ==
    (probe.result # << >> /\ Contains(Base(probe.arg), "@"))
        => /\ Base(probe.result) # Base(probe.arg)
           /\ probe.result # Join(probe.outdir, Base(probe.arg))
           /\ ~Contains(Base(probe.result), "@")
           /\ Dir(probe.result) = probe.outdir

C9_Witness ==
    /\ probe.result # << >>
    /\ Contains(Base(probe.arg), "@")
    /\ Len(Base(probe.arg)) = MaxNameLen
    /\ probe.outdir = InDir
    /\ Len(probe.arg) = 2

\* C10: every output file the engine has written is one marker line with the
\* checksum of a body B, followed by the very content the service returned for
\* the call that submitted B.
C10_FingerprintContent ==
    \A d \in DOMAIN written :
        /\ d \in DOMAIN outs
        /\ outs[d] = << MarkerLine(generateChecksum(written[d].body)) >> \o written[d].content
        /\ \E k \in 1..MaxOutputs : written[d].content = RenderedContent(written[d].body, k)
        /\ \A i \in 2..Len(outs[d]) : ~IsMarkerLine(outs[d][i])

C10_Witness ==
    \E d \in DOMAIN written :
        /\ last.kind = "write"
        /\ last.writes >= 1
        /\ d \in DOMAIN last.prev
        /\ last.prev[d].body # written[d].body
        /\ last.pre # NoFiles

\* the names of the enumerated paths
Enumerated == { Base(filesToRender[i]) : i \in 1..Len(filesToRender) }
IsPrivate(n) == HasPrefix(n, "_")

BatchFailure ==
    /\ last.kind = "batch"
    /\ ~last.present \/ last.fault # "none"

\* C12 as claimed: a failure on one file of a folder batch does not end the
\* process while later files of the enumeration remain.
C12_FailureIsolation ==
    (BatchFailure /\ last.name # Base(filesToRender[Len(filesToRender)]))
        => mainPc # "exited"

\* the last step was a renderStencil call on a source file that is there and is
\* not private, with a formation that holds no stencil of its name
Unresolvable ==
    /\ last.kind \in RenderKinds
    /\ last.present
    /\ ~IsPrivate(last.name)
    /\ last.loaded
    /\ ~last.resolved

\* C13: a render of a file the formation has no stencil for makes no call to the
\* Rendering Service and no write and returns; the process goes on, a batch with
\* its next file.
C13_UnresolvedNonFatal ==
    Unresolvable
        => /\ last.calls = 0 /\ last.writes = 0 /\ last.post = last.pre
           /\ last.exit = "return"
           /\ mainPc # "exited"
           /\ (last.kind = "batch" /\ last.name # Base(filesToRender[Len(filesToRender)]))
                => (mainPc = "batch" /\ Base(filesToRender[idx]) # last.name)

C13_Witness ==
    /\ Unresolvable
    /\ last.kind = "batch"
    /\ last.name = NameDashB
    /\ mainPc = "batch"
    /\ Base(filesToRender[idx]) = NameAtB
    /\ NameAtB \in formation.stencils

\* C14: a run whose enumerated file set is empty makes no call to the Rendering
\* Service and no write at any time and, once past its set-up, has ended fatally;
\* the one step that ends a run for want of files is the check before the batch
\* loop, never a render made for a watch event, also when the folder holds no
\* file by then.
C14_EmptyBatch ==
    /\ Len(filesToRender) = 0
        => /\ last.calls = 0 /\ last.writes = 0
           /\ written = NoFiles /\ outs = NoFiles
           /\ mainPc \in SetUpPcs \cup { "exited" }
           /\ mainPc = "exited" => last.exit = "fatal"
    /\ last.stage = "nofiles" => (last.kind = "start" /\ Len(filesToRender) = 0)
    /\ (last.kind \in { "write", "create" } /\ last.present /\ last.exit = "fatal")
        => last.fault # "none"

C14_Witness ==
    /\ Len(filesToRender) = 0
    /\ sentinel
    /\ watch
    /\ mainPc = "exited"
    /\ last.stage = "nofiles"

\* the list the resolution was given: the snapshots not taken during the run
SnapshotsAtStart == SelectSeq(snapshots, LAMBDA sn : sn # Newest)

\* uid is the uid of a most recent snapshot of the list the resolution was given
MostRecent(uid) ==
    \E i \in 1..Len(SnapshotsAtStart) :
        /\ SnapshotsAtStart[i].uid = uid
        /\ \A j \in 1..Len(SnapshotsAtStart) :
               SnapshotsAtStart[j].date <= SnapshotsAtStart[i].date

\* C15: with the snapshot parameter empty or "latest" every render of the run is
\* made with the most recent snapshot of the stack, and a run on a stack without
\* snapshots ends fatally in the resolution, with no render; with any other
\* parameter every render is made with that very identifier and client.Snapshots
\* is never called.
C15_SnapshotResolution ==
    IF snapshotParam \in { "", "latest" }
    THEN /\ last.kind \in RenderKinds => MostRecent(last.snapshot)
         /\ (Len(SnapshotsAtStart) = 0 /\ mainPc # "snapshot")
              => (mainPc = "exited" /\ last.kind = "start" /\ last.exit = "fatal")
         /\ mainPc # "snapshot" => queried
    ELSE /\ last.kind \in RenderKinds => last.snapshot = snapshotParam
         /\ ~queried

C15_Witness ==
    /\ snapshotParam = ""
    /\ snapshots = << Older, Newer >>
    /\ last.kind = "batch"
    /\ last.calls = 1
    /\ last.snapshot = Newer.uid

\* C16 as claimed: in watch mode no file event and no outcome of the render or
\* write made for it ends the process.
C16_WatchExit ==
    last.kind \in { "write", "create" } => mainPc # "exited"

\* C17 as claimed: every error and every warning of the answer of a render call
\* is reported, whatever ignoreErrors and ignoreWarnings are and whether or not
\* the output is suppressed.
C17_DiagnosticsReported ==
    (last.kind \in RenderKinds /\ last.calls = 1 /\ last.fault # "call")
        => (last.repErrors = last.errors /\ last.repWarnings = last.warnings)

\* C18 as claimed: once the watch is set up and every delivered event has been
\* handled, paused is true iff .pause is in the watched folder.
C18_SentinelAgreement ==
    (mainPc = "blocked" /\ loopPc = "idle" /\ queue = << >>)
        => (paused <=> sentinel)

\* the step takes an event from watcher.Events
TakesEvent == queue # << >> /\ queue' = Tail(queue)
IsResume(ev) == "Remove" \in ev.op /\ Base(ev.name) = PauseName

\* a step that takes an event while paused: any event but the removal of .pause
\* is discarded, leaving everything but the queue as it was, and the removal of
\* .pause resumes without a render; a file-created event the handler starts to
\* wait on was taken while active; a render of the watch loop is made for the
\* event just taken or for the file-created event waited on.
C19_Step ==
    /\ (TakesEvent /\ paused /\ ~IsResume(Head(queue)))
        => /\ paused'
           /\ last'.kind = "drop" /\ last'.calls = 0 /\ last'.writes = 0
           /\ UNCHANGED << outs, written, pending, loopPc, formation, watchedFiles,
                           output, mainPc >>
    /\ (TakesEvent /\ paused /\ IsResume(Head(queue)))
        => /\ ~paused'
           /\ last'.calls = 0 /\ last'.writes = 0
           /\ UNCHANGED << outs, written, pending, loopPc >>
    /\ (pending' # pending /\ pending' # << >>)
        => (TakesEvent /\ ~paused /\ pending' = << Head(queue) >>)
    /\ last'.kind = "write"
        => (TakesEvent /\ ~paused /\ Base(Head(queue).name) = last'.name)
    /\ last'.kind = "create"
        => (pending # << >> /\ Base(pending[1].name) = last'.name /\ pending' = << >>)

\* C19: events taken while paused, but the removal of .pause, are discarded
\* without a trace, and after the resume a render is made only for an event taken
\* while active.
C19_NoBacklog == [][C19_Step]_vars

C19_Witness ==
    /\ last.kind = "drop"
    /\ last.name = NameAtB
    /\ paused
    /\ queue # << >>
    /\ IsResume(Head(queue))
    /\ files # NoFiles

\* C20 as claimed: no render of a folder batch writes an output file that an
\* earlier render of the batch has written.
C20_UniqueOutputs ==
    (last.kind = "batch" /\ last.writes >= 1) => Base(last.out) \notin DOMAIN last.prev

\* a step of the file-created handler after its wait: it is taken after the full
\* debounce wait, for the file of the event waited on; the formation it leaves is
\* the one just loaded from the server, and the render is made with it; the file
\* is registered with the watcher only after a render that returned; no output
\* file but that of the new file changes.  A render for a file-modified event is
\* made with the formation the loop holds and leaves it in place.
C21_Step ==
    /\ last'.kind = "create"
        => /\ loopPc = "sleeping" /\ slept >= DebounceSeconds /\ last'.waited = slept
           /\ last'.name = Base(pending[1].name)
           /\ last'.stage # "nilformation" \/ last'.present
                => /\ last'.loaded = formation'.ok
                   /\ last'.loaded => formation'.stencils = catalog
                   /\ last'.resolved <=> (formation'.ok /\ last'.name \in formation'.stencils)
           /\ watchedFiles' \subseteq watchedFiles \cup { last'.name }
           /\ last'.exit # "return" => watchedFiles' = watchedFiles
           /\ last'.exit = "return" => last'.name \in watchedFiles'
           /\ \A d \in (DOMAIN outs \cup DOMAIN outs') \ { Base(last'.out) } :
                d \in DOMAIN outs /\ d \in DOMAIN outs' /\ outs'[d] = outs[d]
           /\ last'.out = getRenderFilepath(Outdir, << last'.name >>)
    /\ last'.kind = "write"
        => /\ formation' = formation
           /\ last'.resolved <=> (formation.ok /\ last'.name \in formation.stencils)

\* C21: the file-created handler waits, reloads the formation, renders just the
\* new file with the reloaded formation and then registers the file; later events
\* are rendered with the reloaded formation.
C21_CreateOrder == [][C21_Step]_vars

C21_Witness ==
    /\ last.kind = "create"
    /\ last.waited = DebounceSeconds
    /\ last.calls = 1
    /\ last.writes >= 1
    /\ last.name \in watchedFiles
    /\ formation.stencils = Names
    /\ NamePrivate \in DOMAIN files

\* the positions of runRenderStencil before the goroutine is started
BeforeWatch == SetUpPcs \cup { "batch", "pausecheck" }

\* no event is delivered or handled before the batch loop has completed
C22_BatchFirst ==
    mainPc \in BeforeWatch => (loopPc = "off" /\ queue = << >> /\ pending = << >>)

\* a render of the batch loop is made by the main routine for the file at idx,
\* and the loop goes on with the next index; an event is taken only by the idle
\* handler, from the head of the queue, and the queue otherwise only grows at its
\* end; a render of the watch loop is made either in the step that takes the
\* event or in the step that ends the wait of the one handler, and while the
\* handler waits no other step changes an output file.
C22_Step ==
    /\ last'.kind = "batch"
        => /\ mainPc = "batch" /\ loopPc = "off"
           /\ last'.name = Base(filesToRender[idx])
           /\ mainPc' = "batch" => idx' = idx + 1
    /\ queue' # queue
        => \/ TakesEvent /\ loopPc = "idle"
           \/ Len(queue') = Len(queue) + 1 /\ SubSeq(queue', 1, Len(queue)) = queue
    /\ last'.kind = "write" => (TakesEvent /\ loopPc = "idle" /\ mainPc \notin BeforeWatch)
    /\ last'.kind = "create"
        => (loopPc = "sleeping" /\ loopPc' = "idle" /\ queue' = queue
            /\ mainPc \notin BeforeWatch)
    /\ (outs' # outs \/ last'.calls > 0) => last'.kind \in RenderKinds
    /\ (loopPc = "sleeping" /\ last'.kind \in RenderKinds) => last'.kind = "create"

\* C22: renders are made one at a time: the batch loop in enumeration order and
\* before any event is handled, the events one at a time in delivery order.
C22_Serialized == []C22_BatchFirst /\ [][C22_Step]_vars

C22_Witness ==
    /\ loopPc = "sleeping"
    /\ queue # << >>
    /\ "Write" \in Head(queue).op
    /\ pending # << >>
    /\ slept < DebounceSeconds

\* the output file carried no checksum when the call began: it was missing or
\* unreadable, or it held no marker line
PreUnreadable == readMagicComment(last.pre, last.out).err
PreUnmarked ==
    LET read == readMagicComment(last.pre, last.out)
    IN  ~read.err /\ read.value = NoMatch

\* a failure of the call that the gate itself would have caused
GateFatal == last.exit # "return" /\ last.fault = "none"

SkippedInput ==
    /\ last.kind \in RenderKinds
    /\ last.present
    /\ last.fault # "read"
    /\ (last.body = << >> \/ IsPrivate(last.name))

\* C24: for a source file that is empty or private renderStencil makes no call to
\* the Rendering Service, leaves the output file as it was and returns without a
\* fatal error, in the batch loop and in the watch loop.
C24_SkipEmptyPrivate ==
    SkippedInput
        => (last.calls = 0 /\ last.writes = 0 /\ last.post = last.pre
            /\ last.exit = "return")

\* the skip as it holds with a formation that is loaded
C24_SkipWhenLoaded ==
    (SkippedInput /\ last.loaded)
        => (last.calls = 0 /\ last.writes = 0 /\ last.post = last.pre
            /\ last.exit = "return")

\* C26: at every renderStencil call and every reload of the watch loop the
\* formation is a loaded formation, also after a reload that failed.
C26_FormationValid ==
    /\ (Running /\ loopPc # "off") => formation.ok
    /\ last.kind \in { "write", "create" } => last.loaded

\* once set-up is over no step changes the snapshot, asks the service for the
\* snapshots again or changes a flag, and the formation is replaced only by the
\* step that renders for a file-created event
C27_Step ==
    mainPc \notin SetUpPcs
        => /\ snapshotUID' = snapshotUID
           /\ queried' = queried
           /\ snapshotParam' = snapshotParam
           /\ ignoreErrors' = ignoreErrors
           /\ ignoreWarnings' = ignoreWarnings
           /\ formation' # formation => (loopPc = "sleeping" /\ last'.kind = "create")

\* every render is given the snapshot that set-up resolved
C27_SameSnapshot ==
    last.kind \in RenderKinds => last.snapshot = snapshotUID

\* C27: the snapshot and the two ignore flags of every watch render are those of
\* the initial pass, the snapshot is never resolved again, and the watch loop
\* replaces the formation only on file-created events.
C27_FrozenParameters == []C27_SameSnapshot /\ [][C27_Step]_vars

C27_Witness ==
    /\ last.kind \in { "write", "create" }
    /\ snapshotParam = "latest"
    /\ last.snapshot = Newer.uid
    /\ snapshotsByDate(snapshots)[1] = Newest
    /\ last.calls = 1

\* the last call got an answer that passes the triage, with an output path set
\* and no failing write
PassedTriage ==
    /\ last.kind \in RenderKinds
    /\ last.calls = 1
    /\ last.fault = "none"
    /\ last.out # NoOutput
    /\ last.errors = 0 \/ ignoreErrors
    /\ last.warnings = 0 \/ ignoreWarnings

C28_WitnessNone ==
    /\ PassedTriage
    /\ last.n = 0
    /\ Base(last.out) \in DOMAIN last.pre

\* the destination the batch loop uses for the source file of that name
InitialDestination(name) ==
    IF stencilFolder THEN getRenderFilepath(Outdir, << name >>) ELSE output

\* the names of the files of the batch target
TargetNames == { Base(filesToRender[i]) : i \in DOMAIN filesToRender }

\* a render for a file-modified event on a file of the batch target writes to the
\* destination of the batch loop
C25_Step ==
    (last'.kind = "write" /\ last'.name \in TargetNames /\ mainPc \notin BeforeWatch)
        => last'.out = InitialDestination(last'.name)

\* C25: for a folder and for a single file with an explicit output path alike, a
\* re-render on a file-modified event writes to the destination path the initial
\* pass used for that file.
C25_StableDestination == [][C25_Step]_vars

\* the queue updates among the calls doRender has made, and the terminal ones
Updates == SelectSeq(skTrace, LAMBDA e : e \in { TASK_ACK, TASK_FAIL, TASK_SUCCESS })
Terminals == SelectSeq(skTrace, LAMBDA e : e \in { TASK_FAIL, TASK_SUCCESS })
Called(e) == \E i \in 1..Len(skTrace) : skTrace[i] = e

\* doRender was called and has returned
DoRenderOver == ~skPayload.none /\ skPc \in { "select", "exited" }

\* the payload decodes with formation, snapshot and stack present
Complete == ~skPayload.none /\ skPayload.decodes /\ skPayload.complete

\* C29: for a complete payload with a task UUID doRender sends the ack before it
\* fetches the workflow and exactly one terminal update, fail or success, as its
\* last call before it returns; for a payload with an empty task UUID it sends
\* no queue update at all.
C29_TaskProtocol ==
    /\ (Complete /\ skPayload.task # "")
        => /\ skPc \notin { "decode" } => (Len(skTrace) >= 1 /\ skTrace[1] = TASK_ACK)
           /\ Called("fetch") => skTrace[1] = TASK_ACK
           /\ Len(Updates) - Len(Terminals) <= 1
           /\ Len(Terminals) <= 1
           /\ Len(Terminals) = 1 => (DoRenderOver /\ skTrace[Len(skTrace)] = Terminals[1])
           /\ DoRenderOver => Len(Terminals) = 1
           /\ Called(TASK_SUCCESS) => (Called("run") /\ ~Called(TASK_FAIL))
    /\ (~skPayload.none /\ skPayload.task = "") => Updates = << >>

C29_Witness ==
    /\ DoRenderOver
    /\ Complete
    /\ skPayload.task # ""
    /\ skTrace = << TASK_ACK, "fetch", "load", "run", TASK_FAIL >>

\* a payload without task UUID was run to the end without a queue update
C29_WitnessNoTask ==
    /\ DoRenderOver
    /\ Complete
    /\ skPayload.task = ""
    /\ skTrace = << "fetch", "load", "run" >>

\* the positions inside doRender
DoRenderPcs == { "decode", "fetch", "load", "run" }

\* the flag is set exactly while doRender runs, so it is not set when the loop
\* waits for a tick, and no tick has found it set
C30_Flag ==
    /\ skRunning <=> skPc \in DoRenderPcs
    /\ skPc = "select" => ~skRunning
    /\ ~skSkipped

\* a message leaves the queue only in a tick taken while no deployment runs
C30_Step ==
    skQueue' # skQueue /\ Len(skQueue') <= Len(skQueue)
        => (skPc = "select" /\ ~skRunning /\ skQueue' = Tail(skQueue)
            /\ skPc' = "decode" /\ skRunning')

\* C30: the loop never pops the queue while a deployment runs; the flag is set
\* only during doRender and is reset on each of its returns, so it is not set
\* when the loop waits for a tick, no tick is skipped, and a deployment that has
\* begun gives the loop back to the ticker.
C30_OneAtATime ==
    /\ []C30_Flag
    /\ [][C30_Step]_vars
    /\ (skRunning ~> (skPc = "select" /\ ~skRunning))

C30_Witness ==
    /\ skPc = "select"
    /\ ~skRunning
    /\ ~skPayload.none
    /\ ~skPayload.complete
    /\ skTrace = << >>
    /\ skQueue # << >>

====
